---- MODULE Spec2Model ----
(***************************************************************************)
(* Model of the Alpha Vantage query client                                 *)
(* (src/src/third_party_api/alpha_vantage.rs).                             *)
(*                                                                         *)
(* Text is modelled as a sequence of one-character strings, so that        *)
(* formatting, escaping and splitting are computed character by character. *)
(* Each invocation of `query` is a small process: it formats the URL,      *)
(* sends one GET request, awaits the transport's answer, awaits the body   *)
(* text and returns.  The transport (reqwest and the network) is the       *)
(* environment: it picks the outcome of each awaited step.                 *)
(***************************************************************************)
EXTENDS Integers, Sequences, FiniteSets, TLC

(* ------------------------------ bounds --------------------------------- *)

\* number of invocations of `query` that may run concurrently
NumInv == 2

\* total number of characters in the four caller-supplied strings of a
\* query, for the exhaustive check of URL construction
MaxTotal == 3

Invocations == 1..NumInv

(* --------------------------- AlphaVantageRangeFunction ----------------- *)

AlphaVantageRangeFunction ==
    {"Intraday", "Daily", "DailyAdjusted", "Weekly", "WeeklyAdjusted",
     "Monthly", "MonthlyAdjusted"}

\* #[derive(Debug)] on a field-less enum writes the variant's identifier
DebugFunction(f) ==
    CASE f = "Intraday"        -> <<"I","n","t","r","a","d","a","y">>
      [] f = "Daily"           -> <<"D","a","i","l","y">>
      [] f = "DailyAdjusted"   -> <<"D","a","i","l","y","A","d","j","u","s","t","e","d">>
      [] f = "Weekly"          -> <<"W","e","e","k","l","y">>
      [] f = "WeeklyAdjusted"  -> <<"W","e","e","k","l","y","A","d","j","u","s","t","e","d">>
      [] f = "Monthly"         -> <<"M","o","n","t","h","l","y">>
      [] f = "MonthlyAdjusted" -> <<"M","o","n","t","h","l","y","A","d","j","u","s","t","e","d">>

\* impl fmt::Display for AlphaVantageRangeFunction: delegates to Debug
DisplayFunction(f) == DebugFunction(f)

(* ------------------------------ formatting ----------------------------- *)

\* <str as Debug>::fmt: the text in double quotes, with `"` and `\` escaped
RECURSIVE EscapeDebug(_, _)
EscapeDebug(s, i) ==
    IF i > Len(s) THEN <<>>
    ELSE (IF s[i] \in {"\"", "\\"} THEN <<"\\", s[i]>> ELSE <<s[i]>>)
         \o EscapeDebug(s, i + 1)

DebugString(s) == <<"\"">> \o EscapeDebug(s, 1) \o <<"\"">>

\* variant: the API key is left out of the rendering
QueryFieldsRedacted(q) ==
    << << <<"f","u","n","c","t","i","o","n">>,             DebugFunction(q.function) >>,
       << <<"s","y","m","b","o","l">>,                     DebugString(q.symbol) >>,
       << <<"i","n","t","e","r","v","a","l">>,             DebugString(q.interval) >>,
       << <<"o","u","t","p","u","t","_","s","i","z","e">>, DebugString(q.output_size) >> >>

\* the fields of AlphaVantageRangeQuery in declaration order, each with the
\* Debug rendering of its value
QueryFields(q) ==
    << << <<"f","u","n","c","t","i","o","n">>,             DebugFunction(q.function) >>,
       << <<"s","y","m","b","o","l">>,                     DebugString(q.symbol) >>,
       << <<"a","p","i","_","k","e","y">>,                 DebugString(q.api_key) >>,
       << <<"i","n","t","e","r","v","a","l">>,             DebugString(q.interval) >>,
       << <<"o","u","t","p","u","t","_","s","i","z","e">>, DebugString(q.output_size) >> >>

\* Formatter::debug_struct as #[derive(Debug)] drives it:
\* Name { field: value, field: value }
RECURSIVE DebugStructFields(_, _)
DebugStructFields(fields, i) ==
    IF i > Len(fields) THEN <<" ", "}">>
    ELSE (IF i = 1 THEN <<" ", "{", " ">> ELSE <<",", " ">>)
         \o fields[i][1] \o <<":", " ">> \o fields[i][2]
         \o DebugStructFields(fields, i + 1)

DebugQuery(q) ==
    <<"A","l","p","h","a","V","a","n","t","a","g","e","R","a","n","g","e","Q","u","e","r","y">>
    \o DebugStructFields(QueryFields(q), 1)

\* variant: the strings are written with `{:?}` instead of `{}`
StrArgDebug(s) == [display |-> DebugString(s), debug |-> DebugString(s)]

\* a format! argument: what `{}` and what `{:?}` write for it
StrArg(s)   == [display |-> s, debug |-> DebugString(s)]
FnArg(f)    == [display |-> DisplayFunction(f), debug |-> DebugFunction(f)]
QueryArg(q) == [display |-> <<>>, debug |-> DebugQuery(q)]

\* the position of the first `{` of t at or after i, Len(t) + 1 if none
NextBrace(t, i) ==
    LET braces == {j \in i..Len(t) : t[j] = "{"}
    IN  IF braces = {} THEN Len(t) + 1
        ELSE CHOOSE j \in braces : \A j2 \in braces : j <= j2

\* format!: literal characters are copied, `{}` writes the next argument
\* with Display and `{:?}` writes it with Debug
RECURSIVE Format(_, _, _, _)
Format(t, i, args, k) ==
    IF i > Len(t) THEN <<>>
    ELSE IF i + 1 <= Len(t) /\ t[i] = "{" /\ t[i + 1] = "}"
         THEN args[k].display \o Format(t, i + 2, args, k + 1)
    ELSE IF i + 3 <= Len(t) /\ t[i] = "{" /\ t[i + 1] = ":"
                            /\ t[i + 2] = "?" /\ t[i + 3] = "}"
         THEN args[k].debug \o Format(t, i + 4, args, k + 1)
    ELSE LET j == NextBrace(t, i + 1)
         IN  SubSeq(t, i, j - 1) \o Format(t, j, args, k)

\* variant: the key parameter is named after the struct field
UrlTemplateFieldName ==
    <<"h","t","t","p","s",":","/","/","w","w","w",".","a","l","p","h","a","v","a","n","t","a","g","e",".","c","o","/","q","u","e","r","y","?","f","u","n","c","t","i","o","n","=","{","}","&","s","y","m","b","o","l","=","{","}","&","a","p","i","_","k","e","y","=","{","}","&","i","n","t","e","r","v","a","l","=","{","}","&","o","u","t","p","u","t","s","i","z","e","=","{","}">>

UrlTemplate ==
    <<"h","t","t","p","s",":","/","/","w","w","w",".","a","l","p","h","a","v","a","n","t","a","g","e",".","c","o","/","q","u","e","r","y","?","f","u","n","c","t","i","o","n","=","{","}","&","s","y","m","b","o","l","=","{","}","&","a","p","i","k","e","y","=","{","}","&","i","n","t","e","r","v","a","l","=","{","}","&","o","u","t","p","u","t","s","i","z","e","=","{","}">>

SendContextTemplate ==
    <<"F","a","i","l","e","d"," ","t","o"," ","s","e","n","d"," ","r","e","q","u","e","s","t"," ","f","o","r"," ","q","u","e","r","y"," ","{",":","?","}">>

TextContextTemplate ==
    <<"F","a","i","l","e","d"," ","t","o"," ","g","e","t"," ","r","e","s","p","o","n","s","e"," ","t","e","x","t"," ","f","o","r"," ","q","u","e","r","y"," ","{",":","?","}">>

\* let url = format!(...)
UrlOf(q) ==
    Format(UrlTemplate, 1,
           << FnArg(q.function), StrArg(q.symbol), StrArg(q.api_key),
              StrArg(q.interval), StrArg(q.output_size) >>, 1)

\* variant: the second message is used for the first stage too
SendContextCopied(q) == Format(TextContextTemplate, 1, << QueryArg(q) >>, 1)

SendContext(q) == Format(SendContextTemplate, 1, << QueryArg(q) >>, 1)
TextContext(q) == Format(TextContextTemplate, 1, << QueryArg(q) >>, 1)

(* ------------------------------ results -------------------------------- *)

Pending == [kind |-> "pending", val |-> "", ctx |-> <<>>, src |-> "none"]
Ok(v)   == [kind |-> "ok",      val |-> v,  ctx |-> <<>>, src |-> "none"]
Err(e)  == [kind |-> "err",     val |-> "", ctx |-> <<>>, src |-> e]

\* anyhow::Context::context: Ok passes through untouched, an error is
\* wrapped in one more layer of context
Context(r, msg) ==
    IF r.kind = "err" THEN [r EXCEPT !.ctx = <<msg>> \o @] ELSE r

(* ------------------------------ transport ------------------------------ *)

Statuses == {200, 404}
IsSuccess(status) == status >= 200 /\ status <= 299

\* what `send().await` can yield: an error, or a response with its status
SendOutcomes ==
    {[kind |-> "err", status |-> 0]}
    \cup {[kind |-> "resp", status |-> s] : s \in Statuses}

Bodies == {"OK-BODY", "{ \"Error Message\": \"Invalid API call.\" }"}

\* what `text().await` can yield: an error, or the body as text
TextOutcomes ==
    {[kind |-> "err", body |-> ""]}
    \cup {[kind |-> "ok", body |-> b] : b \in Bodies}

NoOutcome == [kind |-> "none"]

(* ------------------------------ inputs --------------------------------- *)

SampleQueries ==
    { [function |-> "Intraday", symbol |-> <<"A","A","P","L">>,
       api_key |-> <<"k","1">>, interval |-> <<"1","5","m","i","n">>,
       output_size |-> <<"c","o","m","p","a","c","t">>],
      [function |-> "DailyAdjusted", symbol |-> <<"a","\"","b">>,
       api_key |-> <<"k","\\","2">>, interval |-> <<>>,
       output_size |-> <<"f","u","l","l">>] }

UrlAlphabet == {"a", "b", "&", "=", "#", "?"}

\* every text of at most n characters over UrlAlphabet
Texts(n) == UNION {[1..k -> UrlAlphabet] : k \in 0..n}

NoQuery == [function |-> "Intraday", symbol |-> <<>>, api_key |-> <<>>,
            interval |-> <<>>, output_size |-> <<>>]

(* ------------------------------ state ---------------------------------- *)

VARIABLES
    pc,       \* where each invocation is: idle, built, awaitSend, awaitText, done
    query,    \* the AlphaVantageRangeQuery the invocation owns
    url,      \* its local `url`
    sent,     \* how many GET requests it has issued
    wire,     \* requests the transport has accepted and not answered yet
    sendOut,  \* what its `send().await` yielded
    textOut,  \* what its `text().await` yielded
    result    \* what the invocation returned

vars == <<pc, query, url, sent, wire, sendOut, textOut, result>>

Init ==
    /\ pc = [i \in Invocations |-> "idle"]
    /\ query = [i \in Invocations |-> NoQuery]
    /\ url = [i \in Invocations |-> <<>>]
    /\ sent = [i \in Invocations |-> 0]
    /\ wire = {}
    /\ sendOut = [i \in Invocations |-> NoOutcome]
    /\ textOut = [i \in Invocations |-> NoOutcome]
    /\ result = [i \in Invocations |-> Pending]

\* variant: the URL is kept in one place shared by all invocations
BuildUrlShared(i, q) ==
    /\ pc[i] = "idle"
    /\ pc' = [pc EXCEPT ![i] = "built"]
    /\ query' = [query EXCEPT ![i] = q]
    /\ url' = [j \in Invocations |-> UrlOf(q)]
    /\ UNCHANGED <<sent, wire, sendOut, textOut, result>>

\* query(q) is called and polled: the URL is formatted from the arguments
BuildUrl(i, q) ==
    /\ pc[i] = "idle"
    /\ pc' = [pc EXCEPT ![i] = "built"]
    /\ query' = [query EXCEPT ![i] = q]
    /\ url' = [url EXCEPT ![i] = UrlOf(q)]
    /\ UNCHANGED <<sent, wire, sendOut, textOut, result>>

\* variant: a probe request precedes the GET
SendTwice(i) ==
    /\ pc[i] = "built"
    /\ pc' = [pc EXCEPT ![i] = "awaitSend"]
    /\ sent' = [sent EXCEPT ![i] = @ + 2]
    /\ wire' = wire \cup {[from |-> i, url |-> url[i]]}
    /\ UNCHANGED <<query, url, sendOut, textOut, result>>

\* Client::new().get(url).send(): one GET request goes out, then the
\* invocation is suspended on `.await`
Send(i) ==
    /\ pc[i] = "built"
    /\ pc' = [pc EXCEPT ![i] = "awaitSend"]
    /\ sent' = [sent EXCEPT ![i] = @ + 1]
    /\ wire' = wire \cup {[from |-> i, url |-> url[i]]}
    /\ UNCHANGED <<query, url, sendOut, textOut, result>>

\* reqwest's Result for `send()`: Err, or Ok(Response)
SendResult(o) == IF o.kind = "err" THEN Err("send") ELSE Ok(o)

\* variant: the body is dropped
TextResultEmpty(o) == IF o.kind = "err" THEN Err("text") ELSE Ok("")

\* reqwest's Result for `text()`: Err, or Ok(String) holding the body
TextResult(o) == IF o.kind = "err" THEN Err("text") ELSE Ok(o.body)

\* variant: a failed send is tried again
AfterSendRetry(r) == IF r.kind = "err" THEN "built" ELSE "awaitText"

\* the `?` after the first context: an error returns from the function,
\* a response goes on to `.text()`
AfterSend(r) == IF r.kind = "err" THEN "done" ELSE "awaitText"

\* `send().await` completes with outcome o; the context is attached and `?`
\* returns the error, otherwise `.text()` is called on the response and the
\* invocation is suspended on the second `.await`
SendCompletes(i, o) ==
    /\ pc[i] = "awaitSend"
    /\ \E r \in wire : r.from = i
    /\ wire' = {r \in wire : r.from # i}
    /\ sendOut' = [sendOut EXCEPT ![i] = o]
    /\ LET r == Context(SendResult(o), SendContext(query[i]))
       IN  /\ pc' = [pc EXCEPT ![i] = AfterSend(r)]
           /\ result' = IF AfterSend(r) = "done"
                        THEN [result EXCEPT ![i] = r]
                        ELSE result
    /\ UNCHANGED <<query, url, sent, textOut>>

\* `text().await` completes with outcome o; the context is attached and the
\* Result is the function's return value
TextCompletes(i, o) ==
    /\ pc[i] = "awaitText"
    /\ textOut' = [textOut EXCEPT ![i] = o]
    /\ result' = [result EXCEPT ![i] =
                    Context(TextResult(o), TextContext(query[i]))]
    /\ pc' = [pc EXCEPT ![i] = "done"]
    /\ UNCHANGED <<query, url, sent, wire, sendOut>>

Next ==
    \E i \in Invocations :
        \/ \E q \in SampleQueries : BuildUrl(i, q)
        \/ Send(i)
        \/ \E o \in SendOutcomes : SendCompletes(i, o)
        \/ \E o \in TextOutcomes : TextCompletes(i, o)

Spec == Init /\ [][Next]_vars

\* URL construction alone, for every query whose four strings hold at most
\* MaxTotal characters in all
NextUrl ==
    /\ pc[1] = "idle"
    /\ \E f \in AlphaVantageRangeFunction, s \in Texts(MaxTotal) :
         \E k \in Texts(MaxTotal - Len(s)) :
           \E n \in Texts(MaxTotal - Len(s) - Len(k)) :
             \E z \in Texts(MaxTotal - Len(s) - Len(k) - Len(n)) :
               BuildUrl(1, [function |-> f, symbol |-> s, api_key |-> k,
                            interval |-> n, output_size |-> z])

UrlSpec == Init /\ [][NextUrl]_vars

\* the runtime keeps polling a ready invocation and the transport answers
\* every awaited step
FairSpec ==
    /\ Spec
    /\ \A i \in Invocations :
          /\ WF_vars(Send(i))
          /\ WF_vars(\E o \in SendOutcomes : SendCompletes(i, o))
          /\ WF_vars(\E o \in TextOutcomes : TextCompletes(i, o))

(* --------------------- reading a URL back -------------------------- *)

\* t cut at every occurrence of the character c, from position i on
RECURSIVE SplitFrom(_, _, _)
SplitFrom(t, i, c) ==
    LET hits == {j \in i..Len(t) : t[j] = c}
    IN  IF hits = {} THEN << SubSeq(t, i, Len(t)) >>
        ELSE LET j == CHOOSE h \in hits : \A h2 \in hits : h <= h2
             IN  << SubSeq(t, i, j - 1) >> \o SplitFrom(t, j + 1, c)

SplitOn(t, c) == SplitFrom(t, 1, c)

\* what follows the first `?` of a URL
QueryString(u) ==
    LET marks == {j \in 1..Len(u) : u[j] = "?"}
    IN  IF marks = {} THEN <<>>
        ELSE SubSeq(u, (CHOOSE j \in marks : \A j2 \in marks : j <= j2) + 1, Len(u))

\* the query string cut on `&`, each piece cut on `=`
ParamsOf(u) ==
    LET pieces == SplitOn(QueryString(u), "&")
    IN  [n \in 1..Len(pieces) |-> SplitOn(pieces[n], "=")]

\* the five (name, value) pairs a caller supplies with q
Supplied(q) ==
    << << <<"f","u","n","c","t","i","o","n">>,         DebugFunction(q.function) >>,
       << <<"s","y","m","b","o","l">>,                 q.symbol >>,
       << <<"a","p","i","k","e","y">>,                 q.api_key >>,
       << <<"i","n","t","e","r","v","a","l">>,         q.interval >>,
       << <<"o","u","t","p","u","t","s","i","z","e">>, q.output_size >> >>

Contains(t, chars) == \E j \in 1..Len(t) : t[j] \in chars

AnyFieldContains(q, chars) ==
    \/ Contains(q.symbol, chars)   \/ Contains(q.api_key, chars)
    \/ Contains(q.interval, chars) \/ Contains(q.output_size, chars)

IsPrefix(p, t) == Len(p) <= Len(t) /\ SubSeq(t, 1, Len(p)) = p

Started(i) == pc[i] # "idle"

(* ------------------------------ claims --------------------------------- *)

\* the function names of the upstream API, as the documentation of `query`
\* writes them (function: "TIME_SERIES_INTRADAY")
UpstreamToken(f) ==
    CASE f = "Intraday"        -> <<"T","I","M","E","_","S","E","R","I","E","S","_","I","N","T","R","A","D","A","Y">>
      [] f = "Daily"           -> <<"T","I","M","E","_","S","E","R","I","E","S","_","D","A","I","L","Y">>
      [] f = "DailyAdjusted"   -> <<"T","I","M","E","_","S","E","R","I","E","S","_","D","A","I","L","Y","_","A","D","J","U","S","T","E","D">>
      [] f = "Weekly"          -> <<"T","I","M","E","_","S","E","R","I","E","S","_","W","E","E","K","L","Y">>
      [] f = "WeeklyAdjusted"  -> <<"T","I","M","E","_","S","E","R","I","E","S","_","W","E","E","K","L","Y","_","A","D","J","U","S","T","E","D">>
      [] f = "Monthly"         -> <<"T","I","M","E","_","S","E","R","I","E","S","_","M","O","N","T","H","L","Y">>
      [] f = "MonthlyAdjusted" -> <<"T","I","M","E","_","S","E","R","I","E","S","_","M","O","N","T","H","L","Y","_","A","D","J","U","S","T","E","D">>

\* C1: in every URL built by `query`, the value of the `function` parameter
\* is the upstream API's token for the variant (TIME_SERIES_INTRADAY for
\* Intraday, and so on for the seven variants).
C1_FunctionIsUpstreamToken ==
    \A i \in Invocations :
        Started(i) =>
            LET first == ParamsOf(url[i])[1]
            IN  /\ first[1] = <<"f","u","n","c","t","i","o","n">>
                /\ first[2] = UpstreamToken(query[i].function)

\* C2: the URL is the fixed base, `?`, and the five parameters function,
\* symbol, apikey, interval, outputsize in that order, each followed by `=`
\* and the input field exactly as supplied, joined by `&`.
C2_UrlIsBasePlusFiveParams ==
    \A i \in Invocations :
        Started(i) =>
            url[i] =
                <<"h","t","t","p","s",":","/","/","w","w","w",".","a","l","p","h","a","v","a","n","t","a","g","e",".","c","o","/","q","u","e","r","y">>
                \o <<"?">> \o <<"f","u","n","c","t","i","o","n","=">> \o DebugFunction(query[i].function)
                \o <<"&">> \o <<"s","y","m","b","o","l","=">> \o query[i].symbol
                \o <<"&">> \o <<"a","p","i","k","e","y","=">> \o query[i].api_key
                \o <<"&">> \o <<"i","n","t","e","r","v","a","l","=">> \o query[i].interval
                \o <<"&">> \o <<"o","u","t","p","u","t","s","i","z","e","=">> \o query[i].output_size

C2_Witness ==
    \E i \in Invocations :
        /\ Started(i)
        /\ query[i].function = "WeeklyAdjusted"
        /\ query[i].symbol = <<"b", "a">>
        /\ Len(url[i]) > 90

\* C3: an invocation whose response had a non-success HTTP status has
\* returned an error, never Ok.
C3_NonSuccessStatusIsError ==
    \A i \in Invocations :
        (/\ pc[i] = "done"
         /\ sendOut[i].kind = "resp"
         /\ ~IsSuccess(sendOut[i].status))
        => result[i].kind = "err"

\* C4: when the send yielded a successful response and the body was read as
\* text, the invocation returns Ok with exactly the text the transport
\* delivered, whatever it is, and no context attached.
C4_OkCarriesDeliveredBody ==
    \A i \in Invocations :
        (/\ pc[i] = "done"
         /\ sendOut[i].kind = "resp"
         /\ IsSuccess(sendOut[i].status)
         /\ textOut[i].kind = "ok")
        => /\ result[i].kind = "ok"
           /\ result[i].val = textOut[i].body
           /\ result[i].ctx = <<>>

C4_Witness ==
    \E i \in Invocations :
        /\ pc[i] = "done"
        /\ sendOut[i].kind = "resp"
        /\ sendOut[i].status = 200
        /\ textOut[i].kind = "ok"
        /\ textOut[i].body # "OK-BODY"
        /\ result[i].kind = "ok"

\* C5: a failed send gives an error of the send stage and the body is never
\* read; a failed body read after a delivered response gives an error of
\* the text stage; the two are told apart by source and by message, and
\* neither failure is returned as Ok.
C5_ErrorNamesFailedStage ==
    \A i \in Invocations :
        pc[i] = "done" =>
            /\ sendOut[i].kind = "err" =>
                   /\ result[i].kind = "err"
                   /\ result[i].src = "send"
                   /\ IsPrefix(<<"F","a","i","l","e","d"," ","t","o"," ","s","e","n","d"," ">>,
                               result[i].ctx[1])
                   /\ textOut[i] = NoOutcome
            /\ (sendOut[i].kind = "resp" /\ textOut[i].kind = "err") =>
                   /\ result[i].kind = "err"
                   /\ result[i].src = "text"
                   /\ IsPrefix(<<"F","a","i","l","e","d"," ","t","o"," ","g","e","t"," ">>,
                               result[i].ctx[1])

C5_Witness ==
    \E i, j \in Invocations :
        /\ pc[i] = "done" /\ sendOut[i].kind = "err"
        /\ pc[j] = "done" /\ sendOut[j].kind = "resp" /\ textOut[j].kind = "err"

\* the Debug text of a query, written out field by field
RenderedQuery(q) ==
    <<"A","l","p","h","a","V","a","n","t","a","g","e","R","a","n","g","e","Q","u","e","r","y">>
    \o <<" ","{"," ">>
    \o <<"f","u","n","c","t","i","o","n",":"," ">> \o DebugFunction(q.function)
    \o <<","," ">> \o <<"s","y","m","b","o","l",":"," ">> \o DebugString(q.symbol)
    \o <<","," ">> \o <<"a","p","i","_","k","e","y",":"," ">> \o DebugString(q.api_key)
    \o <<","," ">> \o <<"i","n","t","e","r","v","a","l",":"," ">> \o DebugString(q.interval)
    \o <<","," ">> \o <<"o","u","t","p","u","t","_","s","i","z","e",":"," ">> \o DebugString(q.output_size)
    \o <<" ","}">>

\* C6: every error an invocation returns has exactly one context, and that
\* context is a stage message followed by the rendering of the five
\* parameters of that same invocation.
C6_ErrorContextRendersOwnQuery ==
    \A i \in Invocations :
        result[i].kind = "err" =>
            /\ Len(result[i].ctx) = 1
            /\ \E stage \in { <<"F","a","i","l","e","d"," ","t","o"," ","s","e","n","d"," ","r","e","q","u","e","s","t"," ","f","o","r"," ","q","u","e","r","y"," ">>,
                              <<"F","a","i","l","e","d"," ","t","o"," ","g","e","t"," ","r","e","s","p","o","n","s","e"," ","t","e","x","t"," ","f","o","r"," ","q","u","e","r","y"," ">> } :
                   result[i].ctx[1] = stage \o RenderedQuery(query[i])

C6_Witness ==
    \E i, j \in Invocations :
        /\ result[i].kind = "err" /\ result[i].src = "send"
        /\ result[j].kind = "err" /\ result[j].src = "text"
        /\ query[i] # query[j]
        /\ Contains(query[j].symbol, {"\""})

\* C7: an invocation has issued no request before it sends and exactly one
\* from then on, whatever its outcome.
C7_ExactlyOneRequest ==
    \A i \in Invocations :
        /\ sent[i] <= 1
        /\ pc[i] \in {"awaitSend", "awaitText", "done"} => sent[i] = 1
        /\ pc[i] \in {"idle", "built"} => sent[i] = 0

C7_Witness ==
    /\ \E i \in Invocations : pc[i] = "done" /\ result[i].kind = "ok" /\ sent[i] = 1
    /\ \E i \in Invocations : pc[i] = "done" /\ result[i].src = "send" /\ sent[i] = 1

OthersUntouched(i) ==
    \A j \in Invocations \ {i} :
        /\ pc'[j] = pc[j]           /\ query'[j] = query[j]
        /\ url'[j] = url[j]         /\ sent'[j] = sent[j]
        /\ sendOut'[j] = sendOut[j] /\ textOut'[j] = textOut[j]
        /\ result'[j] = result[j]
        /\ {r \in wire' : r.from = j} = {r \in wire : r.from = j}

\* C8: a step of one invocation leaves every other invocation's state and
\* pending request as they were; the URL on the wire for an invocation is
\* the one built from its own query; two invocations with equal queries
\* request equal URLs, and with equal transport outcomes as well they
\* return equal results.
C8_InvocationsIndependent ==
    /\ [][\A i \in Invocations : pc'[i] # pc[i] => OthersUntouched(i)]_vars
    /\ [](\A r \in wire : r.url = url[r.from])
    /\ [](\A i, j \in Invocations :
            (Started(i) /\ Started(j) /\ query[i] = query[j]) =>
                /\ url[i] = url[j]
                /\ (/\ pc[i] = "done" /\ pc[j] = "done"
                    /\ sendOut[i] = sendOut[j] /\ textOut[i] = textOut[j])
                   => result[i] = result[j])

C8_Witness ==
    \E i, j \in Invocations :
        /\ i # j
        /\ pc[i] = "awaitSend" /\ pc[j] = "awaitText"
        /\ query[i] # query[j]
        /\ Cardinality(wire) = 1

PcOrder ==
    { <<"idle", "built">>, <<"built", "awaitSend">>, <<"awaitSend", "awaitText">>,
      <<"awaitSend", "done">>, <<"awaitText", "done">> }

\* C9: an invocation moves only forward through build URL, send, read body;
\* a built invocation can always go on to send by itself; once done it has
\* one of the two outcomes and never changes again; and, with the transport
\* answering, every started invocation gets done.
C9_SingleShot ==
    /\ [][\A i \in Invocations : pc'[i] # pc[i] => <<pc[i], pc'[i]>> \in PcOrder]_vars
    /\ [][\A i \in Invocations :
            pc[i] = "done" => (pc'[i] = "done" /\ result'[i] = result[i]
                               /\ sent'[i] = sent[i])]_vars
    /\ [](\A i \in Invocations : pc[i] = "built" => ENABLED Send(i))
    /\ [](\A i \in Invocations :
            /\ (pc[i] = "done") <=> (result[i].kind \in {"ok", "err"})
            /\ result[i].kind = "ok" => result[i].ctx = <<>>
            /\ result[i].kind = "err" => result[i].ctx # <<>>)
    /\ \A i \in Invocations :
            Started(i) ~> (pc[i] = "done" /\ result[i].kind \in {"ok", "err"})

C9_Witness ==
    \E i, j \in Invocations :
        /\ pc[i] = "done" /\ result[i].kind = "ok"
        /\ pc[j] = "done" /\ result[j].kind = "err"

Reserved == {"&", "=", "#", "?"}

\* C10: cutting the query string of the URL on `&` and `=` gives back the
\* five supplied (name, value) pairs when no supplied string holds a
\* reserved character, and gives something else when one holds `&`.
C10_SplitRecoversUnlessReserved ==
    \A i \in Invocations :
        Started(i) =>
            /\ ~AnyFieldContains(query[i], Reserved)
                   => ParamsOf(url[i]) = Supplied(query[i])
            /\ AnyFieldContains(query[i], {"&"})
                   => ParamsOf(url[i]) # Supplied(query[i])

C10_Witness ==
    \E i \in Invocations :
        /\ Started(i)
        /\ Contains(query[i].api_key, {"&"})
        /\ Len(ParamsOf(url[i])) > 5

====
